---- MODULE Spec2Model ----
(***************************************************************************)
(* Model of analyze_sales_data.py: the one-shot sales report pipeline      *)
(*   load_data -> clean_data -> compute_kpis / monthly_trend /             *)
(*   revenue_by_region / top_customers / yearly_trend / yoy_pivot ->       *)
(*   five plot_* renderers -> generate_insights, sequenced by main().      *)
(*                                                                         *)
(* Conventions                                                             *)
(*  - text that the code parses or formats (Sales, Order_Date, the         *)
(*    Order_Month key) is a sequence of one-character strings, so parsing, *)
(*    formatting and lexicographic sorting are computed, not assumed;      *)
(*  - a nullable cell is <<>> (NaN / NaT / None) or <<v>>;                 *)
(*  - a float that may be NaN or infinite is a record [k, n, d]: k = "num" *)
(*    is the rational n/d in lowest terms with d > 0 (rounding error of    *)
(*    binary floating point is not modelled);                              *)
(*  - pandas behaviour is that of pandas 1.x / 2.x.                        *)
(***************************************************************************)
EXTENDS Integers, Sequences, FiniteSets, TLC

VARIABLES
    pc,           \* position of main()
    file,         \* the CSV on disk: [header, rows, decode]
    tried,        \* encodings load_data has attempted, in order
    df,           \* <<>> or <<table returned by load_data>>
    df_clean,     \* rows returned by clean_data
    kpis,         \* <<>> or <<KPI record>>
    monthly_df,   \* result of monthly_trend
    region_df,    \* result of revenue_by_region
    top_cust_df,  \* result of top_customers
    topn,         \* the n top_customers was called with
    yearly_df,    \* result of yearly_trend
    yoy_df,       \* <<>> or <<result of yoy_pivot>>
    insights,     \* <<>> or <<lines returned by generate_insights>>
    artifacts,    \* names of the files written to OUTPUT_DIR
    done,         \* stages of main() that have returned, in order
    error         \* "none" or the exception that ended the run

vars == <<pc, file, tried, df, df_clean, kpis, monthly_df, region_df,
          top_cust_df, topn, yearly_df, yoy_df, insights, artifacts, done, error>>

(***************************************************************************)
(* Bounds of the model.                                                    *)
(***************************************************************************)
MaxRows == 2      \* rows of a generated input table
MaxRunRows == 2   \* rows of an input table of a full run of main()
MaxN == 2         \* largest n passed to top_customers in SpecData

(***************************************************************************)
(* Generic helpers.                                                        *)
(***************************************************************************)
Null == <<>>
Some(v) == <<v>>
IsNull(c) == c = <<>>
Val(c) == c[1]

Range(s) == {s[i] : i \in 1..Len(s)}

RECURSIVE SumSeq(_)
SumSeq(s) == IF s = <<>> THEN 0 ELSE Head(s) + SumSeq(Tail(s))

RECURSIVE SeqsUpTo(_, _)
SeqsUpTo(S, n) ==
    IF n = 0 THEN {<<>>}
    ELSE LET shorter == SeqsUpTo(S, n - 1)
         IN  shorter \cup {Append(t, x) : t \in {u \in shorter : Len(u) = n - 1}, x \in S}

Abs(x) == IF x < 0 THEN -x ELSE x

RECURSIVE Gcd(_, _)
Gcd(a, b) == IF b = 0 THEN a ELSE Gcd(b, a % b)

\* Floats: NaN, +inf, -inf and exact rationals.
NaN == [k |-> "nan", n |-> 0, d |-> 1]
PosInf == [k |-> "inf", n |-> 1, d |-> 1]
NegInf == [k |-> "inf", n |-> -1, d |-> 1]
Num(n, d) ==
    LET g == Gcd(Abs(n), Abs(d))
        s == IF d < 0 THEN -1 ELSE 1
    IN  [k |-> "num", n |-> (s * n) \div g, d |-> (s * d) \div g]
FromInt(c) == IF IsNull(c) THEN NaN ELSE Num(Val(c), 1)

\* IEEE-754 subtraction, division and multiplication by 100 as numpy does them
\* on float64 columns (no exception: x/0 is +-inf, 0/0 is NaN).
FSub(a, b) ==
    IF a.k = "nan" \/ b.k = "nan" THEN NaN
    ELSE IF a.k = "inf" /\ b.k = "inf" THEN (IF a.n = b.n THEN NaN ELSE a)
    ELSE IF a.k = "inf" THEN a
    ELSE IF b.k = "inf" THEN [b EXCEPT !.n = -b.n]
    ELSE Num(a.n * b.d - b.n * a.d, a.d * b.d)
FDiv(a, b) ==
    IF a.k = "nan" \/ b.k = "nan" THEN NaN
    ELSE IF a.k = "inf" /\ b.k = "inf" THEN NaN
    ELSE IF a.k = "inf" THEN (IF b.n < 0 THEN [a EXCEPT !.n = -a.n] ELSE a)
    ELSE IF b.k = "inf" THEN Num(0, 1)
    ELSE IF b.n = 0 THEN (IF a.n = 0 THEN NaN ELSE IF a.n > 0 THEN PosInf ELSE NegInf)
    ELSE Num(a.n * b.d, a.d * b.n)
FMul100(a) == IF a.k = "num" THEN Num(a.n * 100, a.d) ELSE a

(***************************************************************************)
(* Text: characters, their code points, and comparison of str values.      *)
(***************************************************************************)
Digits == <<"0", "1", "2", "3", "4", "5", "6", "7", "8", "9">>
IsDigit(c) == c \in Range(Digits)
DigitVal(c) == (CHOOSE i \in 1..10 : Digits[i] = c) - 1
DigitChar(v) == Digits[v + 1]

Ord(c) ==
    IF IsDigit(c) THEN 48 + DigitVal(c)
    ELSE CASE c = "-" -> 45
           [] c = "N" -> 78
           [] c = "T" -> 84
           [] c = "a" -> 97
           [] c = "b" -> 98
           [] c = "d" -> 100

\* Python's str ordering: by code point, a proper prefix first.
RECURSIVE StrLess(_, _)
StrLess(a, b) ==
    IF b = <<>> THEN FALSE
    ELSE IF a = <<>> THEN TRUE
    ELSE IF Ord(Head(a)) # Ord(Head(b)) THEN Ord(Head(a)) < Ord(Head(b))
    ELSE StrLess(Tail(a), Tail(b))

RECURSIVE DigitsVal(_)
DigitsVal(s) == IF s = <<>> THEN 0 ELSE DigitsVal(SubSeq(s, 1, Len(s) - 1)) * 10 + DigitVal(s[Len(s)])

AllDigits(s) == s # <<>> /\ \A i \in 1..Len(s) : IsDigit(s[i])

(***************************************************************************)
(* clean_data: the conversions of lines 89-96.                             *)
(***************************************************************************)
\* Variant: a cell that does not parse is read as 0 instead of NaN.
to_numeric_zero(s) ==
    IF AllDigits(s) THEN Some(DigitsVal(s))
    ELSE IF Len(s) >= 2 /\ Head(s) = "-" /\ AllDigits(Tail(s)) THEN Some(-DigitsVal(Tail(s)))
    ELSE Some(0)

\* pd.to_numeric(..., errors="coerce") on one cell: an optionally signed
\* decimal integer parses, anything else becomes NaN.
to_numeric(s) ==
    IF AllDigits(s) THEN Some(DigitsVal(s))
    ELSE IF Len(s) >= 2 /\ Head(s) = "-" /\ AllDigits(Tail(s)) THEN Some(-DigitsVal(Tail(s)))
    ELSE Null

IsLeap(y) == (y % 4 = 0 /\ y % 100 # 0) \/ y % 400 = 0
DaysInMonth(y, m) ==
    IF m = 2 THEN (IF IsLeap(y) THEN 29 ELSE 28)
    ELSE IF m \in {4, 6, 9, 11} THEN 30 ELSE 31

\* pd.to_datetime(..., errors="coerce") on one cell holding YYYY-MM-DD text:
\* a valid calendar date parses, anything else becomes NaT.
to_datetime(s) ==
    IF Len(s) = 10 /\ s[5] = "-" /\ s[8] = "-"
       /\ AllDigits(SubSeq(s, 1, 4)) /\ AllDigits(SubSeq(s, 6, 7)) /\ AllDigits(SubSeq(s, 9, 10))
    THEN LET y == DigitsVal(SubSeq(s, 1, 4))
             m == DigitsVal(SubSeq(s, 6, 7))
             d == DigitsVal(SubSeq(s, 9, 10))
         IN  IF y >= 1 /\ m \in 1..12 /\ d >= 1 /\ d <= DaysInMonth(y, m)
             THEN Some([y |-> y, m |-> m, d |-> d])
             ELSE Null
    ELSE Null

\* .dt.year and .dt.month: NaN for NaT.
dt_year(date) == IF IsNull(date) THEN Null ELSE Some(Val(date).y)
dt_month(date) == IF IsNull(date) THEN Null ELSE Some(Val(date).m)

\* str() of a monthly Period: "%Y-%m"; str() of NaT is the text "NaT".
NaTText == <<"N", "a", "T">>
PeriodText(y, m) ==
    << DigitChar((y \div 1000) % 10), DigitChar((y \div 100) % 10),
       DigitChar((y \div 10) % 10), DigitChar(y % 10), "-",
       DigitChar((m \div 10) % 10), DigitChar(m % 10) >>
\* Variant: the key of a NaT date stays null.
period_astype_str_null(date) ==
    IF IsNull(date) THEN Null ELSE Some(PeriodText(Val(date).y, Val(date).m))

\* .dt.to_period("M").astype(str): every cell becomes a str, NaT included.
period_astype_str(date) ==
    IF IsNull(date) THEN Some(NaTText) ELSE Some(PeriodText(Val(date).y, Val(date).m))

\* df.dropna(subset=["Sales"]) after the coercion of line 89.
RECURSIVE dropna_sales(_)
dropna_sales(rows) ==
    IF rows = <<>> THEN <<>>
    ELSE LET r == Head(rows)
             v == to_numeric(r.Sales)
             rest == dropna_sales(Tail(rows))
         IN  IF IsNull(v) THEN rest ELSE <<[r EXCEPT !.Sales = Val(v)]>> \o rest

\* Lines 92-96 on one row.
derive(r) ==
    LET date == to_datetime(r.Order_Date)
    IN  [Order_Date |-> date, Sales |-> r.Sales, Region |-> r.Region,
         Customer_ID |-> r.Customer_ID, Customer_Name |-> r.Customer_Name,
         Year |-> dt_year(date), Month |-> dt_month(date),
         Order_Month |-> period_astype_str(date)]

\* df.drop_duplicates(): the first of each group of equal rows is kept.
RECURSIVE drop_duplicates(_)
drop_duplicates(rows) ==
    IF rows = <<>> THEN <<>>
    ELSE LET init == SubSeq(rows, 1, Len(rows) - 1)
             last == rows[Len(rows)]
             kept == drop_duplicates(init)
         IN  IF last \in Range(init) THEN kept ELSE Append(kept, last)

clean_data(rows) ==
    LET kept == dropna_sales(rows)
    IN  drop_duplicates([i \in 1..Len(kept) |-> derive(kept[i])])

(***************************************************************************)
(* compute_kpis and the grouped views.                                     *)
(***************************************************************************)
SalesOf(rows) == [i \in 1..Len(rows) |-> rows[i].Sales]

\* Series.mean(): NaN for an empty column.
mean(rows) == IF rows = <<>> THEN NaN ELSE Num(SumSeq(SalesOf(rows)), Len(rows))

compute_kpis(rows) ==
    [Total_Sales |-> SumSeq(SalesOf(rows)),
     Total_Orders |-> Len(rows),
     Unique_Customers |-> Cardinality({rows[i].Customer_ID : i \in 1..Len(rows)}),
     Average_Order_Value |-> mean(rows)]

\* ["Sales"].sum() of one group of rows.
GroupSum(rows) == SumSeq(SalesOf(rows))

\* The elements of a finite set of str values in ascending order.
RECURSIVE SortedStr(_)
SortedStr(S) ==
    IF S = {} THEN <<>>
    ELSE LET least == CHOOSE x \in S : \A y \in S \ {x} : StrLess(x, y)
         IN  <<least>> \o SortedStr(S \ {least})

RECURSIVE SortedInt(_)
SortedInt(S) ==
    IF S = {} THEN <<>>
    ELSE LET least == CHOOSE x \in S : \A y \in S : x <= y
         IN  <<least>> \o SortedInt(S \ {least})

\* groupby("Order_Month"): one group per non-null key.
MonthKeys(rows) == {Val(rows[i].Order_Month) : i \in {j \in 1..Len(rows) : ~IsNull(rows[j].Order_Month)}}

monthly_trend(rows) ==
    LET keys == SortedStr(MonthKeys(rows))
    IN  [i \in 1..Len(keys) |->
            LET In(r) == r.Order_Month = Some(keys[i])
            IN  [Order_Month |-> keys[i], Sales |-> GroupSum(SelectSeq(rows, In))]]

\* Every ordering of the finite set S.
RECURSIVE Perms(_)
Perms(S) ==
    IF S = {} THEN {<<>>}
    ELSE UNION {{<<x>> \o p : p \in Perms(S \ {x})} : x \in S}

\* sort_values("Sales", ascending=False): the default sort is not stable, so
\* groups with equal sums may come out in any order.
SortedDescending(s) == \A i \in 1..(Len(s) - 1) : s[i].Sales >= s[i + 1].Sales
sort_values_desc(groups) == {p \in Perms(groups) : SortedDescending(p)}

\* Variant: one row too many.
head_one_more(s, n) == SubSeq(s, 1, IF n + 1 < Len(s) THEN n + 1 ELSE Len(s))

\* .head(n) for n >= 0.
head(s, n) == SubSeq(s, 1, IF n < Len(s) THEN n ELSE Len(s))

RegionGroups(rows) ==
    {[Region |-> g, Sales |-> LET In(r) == r.Region = g IN GroupSum(SelectSeq(rows, In))] :
        g \in {rows[i].Region : i \in 1..Len(rows)}}

\* The possible results of revenue_by_region(df).
revenue_by_region(rows) == sort_values_desc(RegionGroups(rows))

NameGroups(rows) ==
    {[Customer_Name |-> g, Sales |-> LET In(r) == r.Customer_Name = g IN GroupSum(SelectSeq(rows, In))] :
        g \in {rows[i].Customer_Name : i \in 1..Len(rows)}}

\* The possible results of top_customers(df, n).
top_customers(rows, n) == {head(p, n) : p \in sort_values_desc(NameGroups(rows))}

(***************************************************************************)
(* Year-over-year analysis.                                                *)
(***************************************************************************)
\* Variant: rows with a NaN key are grouped under the key (0, 0).
Dated_keepna(rows) ==
    [i \in 1..Len(rows) |->
        IF IsNull(rows[i].Year) \/ IsNull(rows[i].Month)
        THEN [rows[i] EXCEPT !.Year = Some(0), !.Month = Some(0)]
        ELSE rows[i]]

\* The rows groupby(["Year", "Month"]) keeps: a NaN key drops the row.
Dated(rows) == SelectSeq(rows, LAMBDA r : ~IsNull(r.Year) /\ ~IsNull(r.Month))

YearsOf(rows) == {Val(rows[i].Year) : i \in 1..Len(rows)}

\* (year, month) keys in ascending order: year first, then month.
RECURSIVE SortedYM(_)
SortedYM(S) ==
    IF S = {} THEN <<>>
    ELSE LET least == CHOOSE x \in S : \A y \in S :
                          x[1] < y[1] \/ (x[1] = y[1] /\ x[2] <= y[2])
         IN  <<least>> \o SortedYM(S \ {least})

yearly_trend(rows) ==
    LET dated == Dated(rows)
        keys == SortedYM({<<Val(dated[i].Year), Val(dated[i].Month)>> : i \in 1..Len(dated)})
    IN  [i \in 1..Len(keys) |->
            LET In(r) == Val(r.Year) = keys[i][1] /\ Val(r.Month) = keys[i][2]
            IN  [Year |-> keys[i][1], Month |-> keys[i][2], Sales |-> GroupSum(SelectSeq(dated, In))]]

GrowthColumn == "YoY_Growth_%"

\* One cell of pivot_table(values="Sales", index="Month", columns="Year",
\* aggfunc="sum"): NaN where the frame has no row for (month, year).
PivotCell(yearly, m, y) ==
    LET In(r) == r.Year = y /\ r.Month = m
        hit == SelectSeq(yearly, In)
    IN  IF hit = <<>> THEN Null ELSE Some(SumSeq(SalesOf(hit)))

\* Line 172 for one month: (latest - prior) / prior * 100 on float cells.
Growth(latest, prior) ==
    FMul100(FDiv(FSub(FromInt(latest), FromInt(prior)), FromInt(prior)))

\* yoy_pivot(df), called by main() on the result of yearly_trend: one row per
\* month, one cell per year, and the YoY_Growth_% column, which line 171 or
\* line 175 always adds.
yoy_pivot(yearly) ==
    LET years == SortedInt({yearly[i].Year : i \in 1..Len(yearly)})
        months == SortedInt({yearly[i].Month : i \in 1..Len(yearly)})
        ny == Len(years)
    IN  [years |-> years,
         named |-> {GrowthColumn},
         rows |-> [i \in 1..Len(months) |->
                    [Month |-> months[i],
                     cells |-> [j \in 1..ny |-> PivotCell(yearly, months[i], years[j])],
                     growth |-> IF ny >= 2
                                THEN Growth(PivotCell(yearly, months[i], years[ny]),
                                            PivotCell(yearly, months[i], years[ny - 1]))
                                ELSE NaN]]]

(***************************************************************************)
(* Renderers and generate_insights.                                        *)
(***************************************************************************)
\* plot_yoy_growth(pivot_df, path): TRUE when the guard of line 226 lets the
\* chart be drawn and saved.
plot_yoy_growth_draws(yoy) == GrowthColumn \in yoy.named

FAdd(a, b) ==
    IF a.k = "nan" \/ b.k = "nan" THEN NaN
    ELSE IF a.k = "inf" /\ b.k = "inf" THEN (IF a.n = b.n THEN a ELSE NaN)
    ELSE IF a.k = "inf" THEN a
    ELSE IF b.k = "inf" THEN b
    ELSE Num(a.n * b.d + b.n * a.d, a.d * b.d)
\* a < b for floats that are not NaN.
FLess(a, b) ==
    IF a.k = "inf" THEN a.n < 0 /\ ~(b.k = "inf" /\ b.n < 0)
    ELSE IF b.k = "inf" THEN b.n > 0
    ELSE a.n * b.d < b.n * a.d

RECURSIVE FSum(_)
FSum(s) == IF s = <<>> THEN Num(0, 1) ELSE FAdd(Head(s), FSum(Tail(s)))

\* The non-null cells of the growth column, as indices of yoy.rows.
Valid(yoy) == {i \in 1..Len(yoy.rows) : yoy.rows[i].growth.k # "nan"}

\* Series.mean() skips nulls.
growth_mean(yoy) ==
    LET v == SelectSeq([i \in 1..Len(yoy.rows) |-> yoy.rows[i].growth], LAMBDA g : g.k # "nan")
    IN  IF v = <<>> THEN NaN ELSE FDiv(FSum(v), Num(Len(v), 1))

\* Series.idxmax() / idxmin(): label of the first largest / smallest non-null cell.
idxmax(yoy) ==
    LET i == CHOOSE i \in Valid(yoy) :
                 /\ \A j \in Valid(yoy) : ~FLess(yoy.rows[i].growth, yoy.rows[j].growth)
                 /\ \A j \in Valid(yoy) : j < i => FLess(yoy.rows[j].growth, yoy.rows[i].growth)
    IN  yoy.rows[i].Month
idxmin(yoy) ==
    LET i == CHOOSE i \in Valid(yoy) :
                 /\ \A j \in Valid(yoy) : ~FLess(yoy.rows[j].growth, yoy.rows[i].growth)
                 /\ \A j \in Valid(yoy) : j < i => FLess(yoy.rows[i].growth, yoy.rows[j].growth)
    IN  yoy.rows[i].Month

\* generate_insights: the sections of the report in order, and whether the
\* call raises.  With the growth column present and no non-null cell in it,
\* idxmax() has no label to return and lines 274-279 raise.
generate_insights(k, region, top, yoy) ==
    LET hasYoy == GrowthColumn \in yoy.named
        raises == hasYoy /\ Valid(yoy) = {}
    IN  [raised |-> raises,
         sections |-> <<"header", "kpis">>
                      \o (IF Len(region) > 0 THEN <<"top_region">> ELSE <<>>)
                      \o (IF Len(top) > 0 THEN <<"top_customer">> ELSE <<>>)
                      \o (IF hasYoy THEN <<"yoy">> ELSE <<>>)
                      \o (IF raises THEN <<>> ELSE <<"recommendations">>),
         total |-> k.Total_Sales,
         average_growth |-> IF hasYoy THEN growth_mean(yoy) ELSE NaN,
         best_month |-> IF hasYoy /\ ~raises THEN Some(idxmax(yoy)) ELSE Null,
         worst_month |-> IF hasYoy /\ ~raises THEN Some(idxmin(yoy)) ELSE Null]

(***************************************************************************)
(* load_data.                                                              *)
(***************************************************************************)
\* Variant: the legacy encoding first.
encodings_legacy_first == <<"latin1", "utf-8", "cp1252">>

encodings == <<"utf-8", "latin1", "cp1252">>

\* str.strip() on a column label.
RECURSIVE lstrip(_)
lstrip(s) == IF s # <<>> /\ Head(s) = " " THEN lstrip(Tail(s)) ELSE s
RECURSIVE rstrip(_)
rstrip(s) == IF s # <<>> /\ s[Len(s)] = " " THEN rstrip(SubSeq(s, 1, Len(s) - 1)) ELSE s
strip(s) == rstrip(lstrip(s))

\* Lines 65-68: the table read_csv returned, column labels stripped.
loaded(f) == [columns |-> [i \in 1..Len(f.header) |-> strip(f.header[i])], rows |-> f.rows]

ORDER_DATE == <<"O", "r", "d", "e", "r", "_", "D", "a", "t", "e">>
SALES == <<"S", "a", "l", "e", "s">>
REGION == <<"R", "e", "g", "i", "o", "n">>
CUSTOMER_ID == <<"C", "u", "s", "t", "o", "m", "e", "r", "_", "I", "D">>
CUSTOMER_NAME == <<"C", "u", "s", "t", "o", "m", "e", "r", "_", "N", "a", "m", "e">>

\* df[label] raises KeyError when no column has that label.
HasColumns(table, labels) == labels \subseteq Range(table.columns)

(***************************************************************************)
(* Output files (lines 42-51).                                             *)
(***************************************************************************)
CLEANED_DATA == "sales_cleaned.csv"
SUMMARY_METRICS == "summary_metrics.csv"
INSIGHTS_TXT == "insights_summary.txt"
MONTHLY_PLOT == "monthly_revenue_trend.png"
YOY_MULTI_PLOT == "yoy_multiline_trend.png"
YOY_GROWTH_PLOT == "yoy_growth_chart.png"
REGION_PLOT == "revenue_by_region.png"
TOP_CUSTOMERS_PLOT == "top_customers.png"

\* Default of top_customers' parameter n.
DefaultTopN == 10

(***************************************************************************)
(* main(): the stages in program order.                                    *)
(***************************************************************************)
StageOrder ==
    <<"load", "inspect", "clean", "write_cleaned", "kpis", "monthly", "region",
      "top", "yearly", "yoy", "write_summary", "plot_monthly", "plot_region",
      "plot_top", "plot_yoy_multi", "plot_yoy_growth", "insights", "write_insights">>

StageIndex(stage) == CHOOSE i \in 1..Len(StageOrder) : StageOrder[i] = stage

\* Variant: the report is produced before the charts are rendered.
After_report_first(stage) ==
    IF stage = "write_summary" THEN "insights"
    ELSE IF StageIndex(stage) = Len(StageOrder) THEN "done"
    ELSE StageOrder[StageIndex(stage) + 1]

\* The statement main() runs after `stage` has returned.
After(stage) ==
    IF StageIndex(stage) = Len(StageOrder) THEN "done"
    ELSE StageOrder[StageIndex(stage) + 1]

\* `stage` returns: main() goes on to the next statement.
Return(stage) == pc' = After(stage) /\ done' = Append(done, stage)

\* An exception leaves main(), which has no handler: the process ends.
Propagates(exc) == pc' = "aborted" /\ error' = exc

Raise(exc) ==
    /\ Propagates(exc)
    /\ UNCHANGED <<file, tried, df, df_clean, kpis, monthly_df, region_df, top_cust_df,
                   topn, yearly_df, yoy_df, insights, artifacts, done>>

\* --- load_data (lines 60-72), called at line 302 ---
LoadReturns ==
    /\ pc = "load" /\ Len(tried) < Len(encodings)
    /\ LET enc == encodings[Len(tried) + 1]
       IN  /\ file.decode[enc] = "ok"
           /\ tried' = Append(tried, enc)
           /\ df' = Some(loaded(file))
    /\ Return("load")
    /\ UNCHANGED <<file, df_clean, kpis, monthly_df, region_df, top_cust_df, topn,
                   yearly_df, yoy_df, insights, artifacts, error>>

LoadTriesNext ==
    /\ pc = "load" /\ Len(tried) < Len(encodings)
    /\ LET enc == encodings[Len(tried) + 1]
       IN  /\ file.decode[enc] = "UnicodeDecodeError"
           /\ tried' = Append(tried, enc)
    /\ UNCHANGED <<pc, file, df, df_clean, kpis, monthly_df, region_df, top_cust_df, topn,
                   yearly_df, yoy_df, insights, artifacts, done, error>>

\* Any other exception of read_csv is not caught by line 69.
LoadOtherError ==
    /\ pc = "load" /\ Len(tried) < Len(encodings)
    /\ LET enc == encodings[Len(tried) + 1]
       IN  /\ file.decode[enc] = "OSError"
           /\ tried' = Append(tried, enc)
    /\ Propagates("OSError")
    /\ UNCHANGED <<file, df, df_clean, kpis, monthly_df, region_df, top_cust_df, topn,
                   yearly_df, yoy_df, insights, artifacts, done>>

\* Line 72.
LoadExhausted ==
    /\ pc = "load" /\ Len(tried) = Len(encodings)
    /\ Raise("ValueError")

\* --- inspect_data (line 303): prints only ---
InspectData ==
    /\ pc = "inspect"
    /\ Return("inspect")
    /\ UNCHANGED <<file, tried, df, df_clean, kpis, monthly_df, region_df, top_cust_df,
                   topn, yearly_df, yoy_df, insights, artifacts, error>>

\* --- clean_data (line 306) ---
CleanData ==
    /\ pc = "clean"
    /\ \/ /\ HasColumns(Val(df), {SALES, ORDER_DATE})
          /\ df_clean' = clean_data(Val(df).rows)
          /\ Return("clean")
          /\ UNCHANGED <<file, tried, df, kpis, monthly_df, region_df, top_cust_df, topn,
                         yearly_df, yoy_df, insights, artifacts, error>>
       \/ /\ ~HasColumns(Val(df), {SALES, ORDER_DATE})
          /\ Raise("KeyError")

\* A file of OUTPUT_DIR is written, or the write raises.
WriteFile(stage, name) ==
    /\ pc = stage
    /\ \/ /\ artifacts' = artifacts \cup {name}
          /\ Return(stage)
          /\ UNCHANGED <<file, tried, df, df_clean, kpis, monthly_df, region_df, top_cust_df,
                         topn, yearly_df, yoy_df, insights, error>>
       \/ Raise("OSError")

\* Line 307.
WriteCleaned == WriteFile("write_cleaned", CLEANED_DATA)

\* --- compute_kpis (line 310) ---
ComputeKpis ==
    /\ pc = "kpis"
    /\ \/ /\ HasColumns(Val(df), {CUSTOMER_ID})
          /\ kpis' = Some(compute_kpis(df_clean))
          /\ Return("kpis")
          /\ UNCHANGED <<file, tried, df, df_clean, monthly_df, region_df, top_cust_df, topn,
                         yearly_df, yoy_df, insights, artifacts, error>>
       \/ /\ ~HasColumns(Val(df), {CUSTOMER_ID})
          /\ Raise("KeyError")

\* --- monthly_trend (line 313) ---
MonthlyTrend ==
    /\ pc = "monthly"
    /\ monthly_df' = monthly_trend(df_clean)
    /\ Return("monthly")
    /\ UNCHANGED <<file, tried, df, df_clean, kpis, region_df, top_cust_df, topn,
                   yearly_df, yoy_df, insights, artifacts, error>>

\* --- revenue_by_region (line 314) ---
RevenueByRegion ==
    /\ pc = "region"
    /\ \/ /\ HasColumns(Val(df), {REGION})
          /\ region_df' \in revenue_by_region(df_clean)
          /\ Return("region")
          /\ UNCHANGED <<file, tried, df, df_clean, kpis, monthly_df, top_cust_df, topn,
                         yearly_df, yoy_df, insights, artifacts, error>>
       \/ /\ ~HasColumns(Val(df), {REGION})
          /\ Raise("KeyError")

\* --- top_customers (line 315), n left at its default ---
TopCustomers ==
    /\ pc = "top"
    /\ \/ /\ HasColumns(Val(df), {CUSTOMER_NAME})
          /\ top_cust_df' \in top_customers(df_clean, DefaultTopN)
          /\ topn' = DefaultTopN
          /\ Return("top")
          /\ UNCHANGED <<file, tried, df, df_clean, kpis, monthly_df, region_df,
                         yearly_df, yoy_df, insights, artifacts, error>>
       \/ /\ ~HasColumns(Val(df), {CUSTOMER_NAME})
          /\ Raise("KeyError")

\* --- yearly_trend (line 318) ---
YearlyTrend ==
    /\ pc = "yearly"
    /\ yearly_df' = yearly_trend(df_clean)
    /\ Return("yearly")
    /\ UNCHANGED <<file, tried, df, df_clean, kpis, monthly_df, region_df, top_cust_df,
                   topn, yoy_df, insights, artifacts, error>>

\* --- yoy_pivot (line 319) ---
YoyPivot ==
    /\ pc = "yoy"
    /\ yoy_df' = Some(yoy_pivot(yearly_df))
    /\ Return("yoy")
    /\ UNCHANGED <<file, tried, df, df_clean, kpis, monthly_df, region_df, top_cust_df,
                   topn, yearly_df, insights, artifacts, error>>

\* Lines 321-324.
WriteSummary == WriteFile("write_summary", SUMMARY_METRICS)

\* --- the renderers (lines 327-331): each saves its chart or raises ---
PlotMonthlyRevenue == WriteFile("plot_monthly", MONTHLY_PLOT)
PlotRevenueByRegion == WriteFile("plot_region", REGION_PLOT)
PlotTopCustomers == WriteFile("plot_top", TOP_CUSTOMERS_PLOT)
PlotYoyMultiline == WriteFile("plot_yoy_multi", YOY_MULTI_PLOT)

PlotYoyGrowth ==
    /\ pc = "plot_yoy_growth"
    /\ IF plot_yoy_growth_draws(Val(yoy_df))
       THEN WriteFile("plot_yoy_growth", YOY_GROWTH_PLOT)
       ELSE \* line 227: return without a chart
            /\ Return("plot_yoy_growth")
            /\ UNCHANGED <<file, tried, df, df_clean, kpis, monthly_df, region_df,
                           top_cust_df, topn, yearly_df, yoy_df, insights, artifacts, error>>

\* --- generate_insights (line 334) ---
GenerateInsights ==
    /\ pc = "insights"
    /\ LET res == generate_insights(Val(kpis), region_df, top_cust_df, Val(yoy_df))
       IN  \/ /\ ~res.raised
              /\ insights' = Some(res)
              /\ Return("insights")
              /\ UNCHANGED <<file, tried, df, df_clean, kpis, monthly_df, region_df,
                             top_cust_df, topn, yearly_df, yoy_df, artifacts, error>>
           \/ /\ res.raised
              /\ Raise("NoValidGrowth")

\* Lines 335-336.
WriteInsights == WriteFile("write_insights", INSIGHTS_TXT)

Next ==
    \/ LoadReturns \/ LoadTriesNext \/ LoadOtherError \/ LoadExhausted
    \/ InspectData \/ CleanData \/ WriteCleaned
    \/ ComputeKpis \/ MonthlyTrend \/ RevenueByRegion \/ TopCustomers
    \/ YearlyTrend \/ YoyPivot \/ WriteSummary
    \/ PlotMonthlyRevenue \/ PlotRevenueByRegion \/ PlotTopCustomers
    \/ PlotYoyMultiline \/ PlotYoyGrowth
    \/ GenerateInsights \/ WriteInsights

(***************************************************************************)
(* Inputs.                                                                 *)
(***************************************************************************)
GoodHeader ==
    <<<<"O", "r", "d", "e", "r", "_", "D", "a", "t", "e">>,
      <<"S", "a", "l", "e", "s">>,
      <<"R", "e", "g", "i", "o", "n">>,
      <<"C", "u", "s", "t", "o", "m", "e", "r", "_", "I", "D">>,
      <<"C", "u", "s", "t", "o", "m", "e", "r", "_", "N", "a", "m", "e">>>>
\* Labels with surrounding blanks, which load_data strips.
PaddedHeader ==
    <<<<"O", "r", "d", "e", "r", "_", "D", "a", "t", "e", " ">>,
      <<" ", "S", "a", "l", "e", "s">>,
      <<"R", "e", "g", "i", "o", "n">>,
      <<"C", "u", "s", "t", "o", "m", "e", "r", "_", "I", "D">>,
      <<" ", "C", "u", "s", "t", "o", "m", "e", "r", "_", "N", "a", "m", "e", " ">>>>
\* Files that lack one of the columns the pipeline reads.
NoSalesHeader ==
    <<<<"O", "r", "d", "e", "r", "_", "D", "a", "t", "e">>,
      <<"S", "a", "l", "e", " ", "s">>,
      <<"R", "e", "g", "i", "o", "n">>,
      <<"C", "u", "s", "t", "o", "m", "e", "r", "_", "I", "D">>,
      <<"C", "u", "s", "t", "o", "m", "e", "r", "_", "N", "a", "m", "e">>>>
NoCustomerIdHeader ==
    <<<<"O", "r", "d", "e", "r", "_", "D", "a", "t", "e">>,
      <<"S", "a", "l", "e", "s">>,
      <<"R", "e", "g", "i", "o", "n">>,
      <<"C", "u", "s", "t", "o", "m", "e", "r", " ", "I", "D">>,
      <<"C", "u", "s", "t", "o", "m", "e", "r", "_", "N", "a", "m", "e">>>>
NoRegionHeader ==
    <<<<"O", "r", "d", "e", "r", "_", "D", "a", "t", "e">>,
      <<"S", "a", "l", "e", "s">>,
      <<"R", "e", "g", " ", "i", "o", "n">>,
      <<"C", "u", "s", "t", "o", "m", "e", "r", "_", "I", "D">>,
      <<"C", "u", "s", "t", "o", "m", "e", "r", "_", "N", "a", "m", "e">>>>
NoCustomerNameHeader ==
    <<<<"O", "r", "d", "e", "r", "_", "D", "a", "t", "e">>,
      <<"S", "a", "l", "e", "s">>,
      <<"R", "e", "g", "i", "o", "n">>,
      <<"C", "u", "s", "t", "o", "m", "e", "r", "_", "I", "D">>,
      <<"C", "u", "s", "t", "o", "m", "e", "r", " ", "N", "a", "m", "e">>>>
Headers == {GoodHeader, PaddedHeader, NoSalesHeader, NoCustomerIdHeader,
            NoRegionHeader, NoCustomerNameHeader}

D_2023_01_05 == <<"2", "0", "2", "3", "-", "0", "1", "-", "0", "5">>
D_2023_01_06 == <<"2", "0", "2", "3", "-", "0", "1", "-", "0", "6">>
D_2023_02_05 == <<"2", "0", "2", "3", "-", "0", "2", "-", "0", "5">>
D_2024_01_05 == <<"2", "0", "2", "4", "-", "0", "1", "-", "0", "5">>
D_invalid == <<"2", "0", "2", "3", "-", "1", "3", "-", "0", "5">>
S_100 == <<"1", "0", "0">>
S_300 == <<"3", "0", "0">>
S_0 == <<"0">>
S_bad == <<"b", "a", "d">>

Row(date, sales, id, name) ==
    [Order_Date |-> date, Sales |-> sales, Region |-> "East",
     Customer_ID |-> id, Customer_Name |-> name]

\* The scenario of the specification's section 8.
ExampleTable ==
    << Row(D_2023_01_05, S_100, "C1", "Alice"),
       Row(D_2023_01_06, S_bad, "C2", "Bob"),
       Row(D_2024_01_05, S_300, "C1", "Alice") >>

Customers == {<<"C1", "Alice">>, <<"C2", "Bob">>, <<"C1", "Bob">>}
DataRows ==
    {Row(d, s, c[1], c[2]) : d \in {D_2023_01_05, D_2023_02_05, D_2024_01_05, D_invalid},
                             s \in {S_100, S_0, S_bad},
                             c \in Customers}
DataTables == SeqsUpTo(DataRows, MaxRows) \cup {ExampleTable}

RunRows ==
    {Row(d, s, "C1", "Alice") : d \in {D_2023_01_05, D_2024_01_05},
                                s \in {S_100, S_bad}}
RunTables == SeqsUpTo(RunRows, MaxRunRows)

DecodeOutcomes == {"ok", "UnicodeDecodeError", "OSError"}

Blank ==
    /\ tried = <<>> /\ df = Null /\ df_clean = <<>> /\ kpis = Null
    /\ monthly_df = <<>> /\ region_df = <<>> /\ top_cust_df = <<>>
    /\ topn = DefaultTopN /\ yearly_df = <<>> /\ yoy_df = Null
    /\ insights = Null /\ artifacts = {} /\ done = <<>> /\ error = "none"

\* A run of main() on some file.
Init ==
    /\ pc = "load"
    /\ file \in [header : Headers, rows : RunTables,
                 decode : [Range(encodings) -> DecodeOutcomes]]
    /\ Blank

Spec == Init /\ [][Next]_vars

(***************************************************************************)
(* The cleaner and the aggregators applied to generated tables: after      *)
(* clean_data, each aggregate function is applied once to the cleaned      *)
(* table, top_customers with every n in 0..MaxN.                           *)
(***************************************************************************)
DataStep(at, stage, to) == pc = at /\ pc' = to /\ done' = Append(done, stage)

ApplyCleanData ==
    /\ DataStep("d_clean", "clean", "d_kpis")
    /\ df_clean' = clean_data(Val(df).rows)
    /\ UNCHANGED <<file, tried, df, kpis, monthly_df, region_df, top_cust_df, topn,
                   yearly_df, yoy_df, insights, artifacts, error>>

ApplyComputeKpis ==
    /\ DataStep("d_kpis", "kpis", "d_monthly")
    /\ kpis' = Some(compute_kpis(df_clean))
    /\ UNCHANGED <<file, tried, df, df_clean, monthly_df, region_df, top_cust_df, topn,
                   yearly_df, yoy_df, insights, artifacts, error>>

ApplyMonthlyTrend ==
    /\ DataStep("d_monthly", "monthly", "d_region")
    /\ monthly_df' = monthly_trend(df_clean)
    /\ UNCHANGED <<file, tried, df, df_clean, kpis, region_df, top_cust_df, topn,
                   yearly_df, yoy_df, insights, artifacts, error>>

ApplyRevenueByRegion ==
    /\ DataStep("d_region", "region", "d_yearly")
    /\ region_df' \in revenue_by_region(df_clean)
    /\ UNCHANGED <<file, tried, df, df_clean, kpis, monthly_df, top_cust_df, topn,
                   yearly_df, yoy_df, insights, artifacts, error>>

ApplyYearlyTrend ==
    /\ DataStep("d_yearly", "yearly", "d_yoy")
    /\ yearly_df' = yearly_trend(df_clean)
    /\ UNCHANGED <<file, tried, df, df_clean, kpis, monthly_df, region_df, top_cust_df,
                   topn, yoy_df, insights, artifacts, error>>

ApplyYoyPivot ==
    /\ DataStep("d_yoy", "yoy", "d_top")
    /\ yoy_df' = Some(yoy_pivot(yearly_df))
    /\ UNCHANGED <<file, tried, df, df_clean, kpis, monthly_df, region_df, top_cust_df,
                   topn, yearly_df, insights, artifacts, error>>

ApplyTopCustomers ==
    /\ DataStep("d_top", "top", "d_done")
    /\ \E n \in 0..MaxN :
          /\ top_cust_df' \in top_customers(df_clean, n)
          /\ topn' = n
    /\ UNCHANGED <<file, tried, df, df_clean, kpis, monthly_df, region_df,
                   yearly_df, yoy_df, insights, artifacts, error>>

NextData ==
    \/ ApplyCleanData \/ ApplyComputeKpis \/ ApplyMonthlyTrend \/ ApplyRevenueByRegion
    \/ ApplyYearlyTrend \/ ApplyYoyPivot \/ ApplyTopCustomers

\* A table as load_data returns it.
InitData ==
    /\ pc = "d_clean"
    /\ file \in [header : {GoodHeader}, rows : DataTables,
                 decode : [Range(encodings) -> {"ok"}]]
    /\ tried = <<encodings[1]>>
    /\ df = Some(loaded(file))
    /\ df_clean = <<>> /\ kpis = Null
    /\ monthly_df = <<>> /\ region_df = <<>> /\ top_cust_df = <<>>
    /\ topn = DefaultTopN /\ yearly_df = <<>> /\ yoy_df = Null
    /\ insights = Null /\ artifacts = {} /\ done = <<>> /\ error = "none"

SpecData == InitData /\ [][NextData]_vars

Ran(stage) == stage \in Range(done)
IsExample == file.rows = ExampleTable

(***************************************************************************)
(* C1.  The section 8 scenario.                                            *)
(***************************************************************************)
\* C1: for the three-row example input, the cleaned table is the two rows with
\* sales 100 and 300 (the "bad" row is gone), Total_Sales is 400,
\* Unique_Customers is 1, monthly_trend is exactly [("2023-01", 100),
\* ("2024-01", 300)] and the growth of month 1 is 200 percent.
C1_ExampleScenario ==
    IsExample =>
        /\ Ran("clean") =>
              /\ SalesOf(df_clean) = <<100, 300>>
              /\ \A i \in 1..Len(df_clean) : df_clean[i].Customer_Name = "Alice"
        /\ Ran("kpis") =>
              /\ Val(kpis).Total_Sales = 400
              /\ Val(kpis).Unique_Customers = 1
        /\ Ran("monthly") =>
              monthly_df = << [Order_Month |-> <<"2", "0", "2", "3", "-", "0", "1">>, Sales |-> 100],
                              [Order_Month |-> <<"2", "0", "2", "4", "-", "0", "1">>, Sales |-> 300] >>
        /\ Ran("yoy") =>
              /\ Len(Val(yoy_df).rows) = 1
              /\ Val(yoy_df).rows[1].Month = 1
              /\ Val(yoy_df).rows[1].growth = [k |-> "num", n |-> 200, d |-> 1]

C1_Witness == IsExample /\ pc = "d_done"

(***************************************************************************)
(* C2.  The growth column.                                                 *)
(***************************************************************************)
\* C2 (as claimed): in every month row of yoy_pivot's matrix the growth value
\* is (latest - prior) / prior * 100 over the two latest years present, it is
\* null when fewer than two years are present or the prior-year value is zero,
\* and it is never infinite.
C2_GrowthAsClaimed ==
    Ran("yoy") =>
        LET yoy == Val(yoy_df)
            ny == Len(yoy.years)
        IN  \A i \in 1..Len(yoy.rows) :
                LET r == yoy.rows[i]
                IN  /\ r.growth.k # "inf"
                    /\ ny < 2 => r.growth.k = "nan"
                    /\ ny >= 2 =>
                          LET latest == r.cells[ny]
                              prior == r.cells[ny - 1]
                          IN  /\ prior = <<0>> => r.growth.k = "nan"
                              /\ (latest # <<>> /\ prior # <<>> /\ prior # <<0>>) =>
                                    /\ r.growth.k = "num"
                                    /\ r.growth.n * Val(prior) =
                                           (Val(latest) - Val(prior)) * 100 * r.growth.d

(***************************************************************************)
(* C3.  A single year of data.                                             *)
(***************************************************************************)
OneYear == Ran("clean") /\ Cardinality(YearsOf(Dated(df_clean))) = 1

\* C3 (as claimed): with one distinct year in the cleaned data the growth
\* column is entirely null, plot_yoy_growth writes no chart, generate_insights
\* returns a report without a Year-over-Year section, and once the other four
\* charts are rendered nothing but a failed file write can end the run early.
C3_SingleYearAsClaimed ==
    OneYear =>
        /\ Ran("yoy") => \A i \in 1..Len(Val(yoy_df).rows) : Val(yoy_df).rows[i].growth.k = "nan"
        /\ YOY_GROWTH_PLOT \notin artifacts
        /\ Ran("insights") => "yoy" \notin Range(Val(insights).sections)
        /\ (Ran("plot_yoy_multi") /\ pc = "aborted") => error = "OSError"

(***************************************************************************)
(* C4.  The cleaned table.                                                 *)
(***************************************************************************)
SalesParses(r) == r.Sales \in {S_100, S_300, S_0}
DateParses(r) == r.Order_Date # D_invalid
SameCustomer(c, r) ==
    c.Customer_ID = r.Customer_ID /\ c.Customer_Name = r.Customer_Name /\ c.Region = r.Region

\* C4 (as claimed): after clean_data every row has an integer sales amount, the
\* rows that survive are those whose sales amount parses (equal rows counted
\* once), and a row whose order date does not parse is kept with a null order
\* date and null Year, Month and Order_Month.
C4_CleanedAsClaimed ==
    Ran("clean") =>
        /\ \A i \in 1..Len(df_clean) : df_clean[i].Sales \in Int
        /\ Len(df_clean) <= Len(SelectSeq(file.rows, SalesParses))
        /\ \A j \in 1..Len(file.rows) :
              LET r == file.rows[j]
              IN  SalesParses(r) =>
                    \E i \in 1..Len(df_clean) :
                        LET c == df_clean[i]
                        IN  /\ SameCustomer(c, r)
                            /\ DateParses(r) => ~IsNull(c.Order_Date)
                            /\ ~DateParses(r) =>
                                  /\ IsNull(c.Order_Date)
                                  /\ IsNull(c.Year) /\ IsNull(c.Month)
                                  /\ IsNull(c.Order_Month)

(***************************************************************************)
(* C5.  monthly_trend's keys.                                              *)
(***************************************************************************)
YearMonthPairs(rows) ==
    {<<Val(rows[i].Year), Val(rows[i].Month)>> :
        i \in {j \in 1..Len(rows) : ~IsNull(rows[j].Year) /\ ~IsNull(rows[j].Month)}}

\* C5 (as claimed): monthly_trend is sorted ascending by key with one row per
\* key, and its keys are exactly the distinct (year, month) pairs of the
\* cleaned data, also when some cleaned rows have a null order date.
C5_MonthlyKeysAsClaimed ==
    Ran("monthly") =>
        /\ \A i \in 1..(Len(monthly_df) - 1) :
              StrLess(monthly_df[i].Order_Month, monthly_df[i + 1].Order_Month)
        /\ {monthly_df[i].Order_Month : i \in 1..Len(monthly_df)} =
               {PeriodText(ym[1], ym[2]) : ym \in YearMonthPairs(df_clean)}

(***************************************************************************)
(* C6.  monthly_trend against the KPI total.                               *)
(***************************************************************************)
NullDated(rows) == SelectSeq(rows, LAMBDA r : IsNull(r.Order_Date))

\* C6: the revenue of monthly_trend's rows adds up to Total_Sales of
\* compute_kpis, rows with a null order date included.
C6_MonthlySumsToTotal ==
    (Ran("monthly") /\ Ran("kpis")) =>
        SumSeq(SalesOf(monthly_df)) = Val(kpis).Total_Sales

C6_Witness ==
    /\ pc = "d_done"
    /\ NullDated(df_clean) # <<>>
    /\ SumSeq(SalesOf(NullDated(df_clean))) > 0
    /\ Len(monthly_df) >= 2

(***************************************************************************)
(* C7.  top_customers.                                                     *)
(***************************************************************************)
\* C7 (as claimed): top_customers(df, n) has at most n rows, sorted descending
\* by summed sales, and no more rows than Unique_Customers of the KPI set.
C7_TopAsClaimed ==
    (Ran("top") /\ Ran("kpis")) =>
        /\ Len(top_cust_df) <= topn
        /\ SortedDescending(top_cust_df)
        /\ Len(top_cust_df) <= Val(kpis).Unique_Customers

DistinctNames(rows) == {rows[i].Customer_Name : i \in 1..Len(rows)}

\* C7 (amended): top_customers(df, n) has at most n rows, sorted descending by
\* summed sales, one row per customer name, and no more rows than there are
\* distinct customer names in the cleaned table.
C7_TopBounded ==
    Ran("top") =>
        /\ Len(top_cust_df) <= topn
        /\ SortedDescending(top_cust_df)
        /\ Len(top_cust_df) <= Cardinality(DistinctNames(df_clean))
        /\ \A i, j \in 1..Len(top_cust_df) :
              top_cust_df[i].Customer_Name = top_cust_df[j].Customer_Name => i = j

C7_Witness ==
    /\ pc = "d_done" /\ topn = 1 /\ Len(top_cust_df) = 1
    /\ Cardinality(DistinctNames(df_clean)) = 2
    /\ Val(kpis).Unique_Customers = 1

(***************************************************************************)
(* C10.  Rows without a date.                                              *)
(***************************************************************************)
\* C10: rows with a null order date count in Total_Sales and Total_Orders but
\* not in yearly_trend nor in the matrix of yoy_pivot: both add up to
\* Total_Sales less the sales of the null-dated rows.
C10_UndatedRowsExcluded ==
    /\ Ran("kpis") =>
          /\ Val(kpis).Total_Orders = Len(df_clean)
          /\ Val(kpis).Total_Sales = SumSeq(SalesOf(df_clean))
    /\ (Ran("kpis") /\ Ran("yearly")) =>
          SumSeq(SalesOf(yearly_df)) =
              Val(kpis).Total_Sales - SumSeq(SalesOf(NullDated(df_clean)))
    /\ (Ran("kpis") /\ Ran("yoy")) =>
          LET yoy == Val(yoy_df)
              cell(i, j) == IF IsNull(yoy.rows[i].cells[j]) THEN 0 ELSE Val(yoy.rows[i].cells[j])
              rowsum(i) == SumSeq([j \in 1..Len(yoy.years) |-> cell(i, j)])
          IN  SumSeq([i \in 1..Len(yoy.rows) |-> rowsum(i)]) =
                  Val(kpis).Total_Sales - SumSeq(SalesOf(NullDated(df_clean)))

C10_Witness ==
    /\ pc = "d_done"
    /\ SumSeq(SalesOf(NullDated(df_clean))) > 0
    /\ Len(yearly_df) >= 1
    /\ Val(kpis).Total_Orders = Len(yearly_df) + Len(NullDated(df_clean))

(***************************************************************************)
(* C8.  load_data.                                                         *)
(***************************************************************************)
IsPrefix(a, b) == Len(a) <= Len(b) /\ a = SubSeq(b, 1, Len(a))
Blanks(s) == \A i \in 1..Len(s) : s[i] = " "
\* t is s without its leading and trailing blanks.
Trimmed(s, t) ==
    /\ t # <<>> => (Head(t) # " " /\ t[Len(t)] # " ")
    /\ \E a \in 0..Len(s) : \E b \in a..Len(s) :
          /\ t = SubSeq(s, a + 1, b)
          /\ Blanks(SubSeq(s, 1, a)) /\ Blanks(SubSeq(s, b + 1, Len(s)))
Failed(enc) == file.decode[enc] = "UnicodeDecodeError"

\* C8: load_data tries utf-8, latin1, cp1252 in that order, a later one only
\* after every earlier one failed to decode; it returns the table of the first
\* encoding that succeeds, its column labels trimmed; and when all three fail
\* it raises the error of line 72 (the specification's DataAccessError), which
\* ends the run with no file written.
C8_EncodingFallback ==
    /\ IsPrefix(tried, <<"utf-8", "latin1", "cp1252">>)
    /\ \A i \in 1..(Len(tried) - 1) : Failed(tried[i])
    /\ ~IsNull(df) =>
          /\ tried # <<>> /\ file.decode[tried[Len(tried)]] = "ok"
          /\ Val(df).rows = file.rows
          /\ Len(Val(df).columns) = Len(file.header)
          /\ \A i \in 1..Len(file.header) : Trimmed(file.header[i], Val(df).columns[i])
    /\ (pc # "load" /\ \A enc \in {"utf-8", "latin1", "cp1252"} : Failed(enc)) =>
          /\ pc = "aborted" /\ error = "ValueError"
          /\ IsNull(df) /\ artifacts = {} /\ done = <<>>

C8_Witness ==
    /\ pc = "aborted" /\ error = "ValueError"
    /\ tried = <<"utf-8", "latin1", "cp1252">>
    /\ file.header = PaddedHeader

(***************************************************************************)
(* C9.  The order of main().                                               *)
(***************************************************************************)
\* The phases the claim names: 1 load, 2 clean, 3 KPIs and aggregates,
\* 4 the five renderers, 5 the report.
Phase(stage) ==
    CASE stage \in {"load", "inspect"} -> 1
      [] stage \in {"clean", "write_cleaned"} -> 2
      [] stage \in {"kpis", "monthly", "region", "top", "yearly", "yoy", "write_summary"} -> 3
      [] stage \in {"plot_monthly", "plot_region", "plot_top", "plot_yoy_multi",
                    "plot_yoy_growth"} -> 4
      [] stage \in {"insights", "write_insights"} -> 5
Renderers == {"plot_monthly", "plot_region", "plot_top", "plot_yoy_multi", "plot_yoy_growth"}
WrittenBy(stage) ==
    CASE stage = "write_cleaned" -> {CLEANED_DATA}
      [] stage = "write_summary" -> {SUMMARY_METRICS}
      [] stage = "plot_monthly" -> {MONTHLY_PLOT}
      [] stage = "plot_region" -> {REGION_PLOT}
      [] stage = "plot_top" -> {TOP_CUSTOMERS_PLOT}
      [] stage = "plot_yoy_multi" -> {YOY_MULTI_PLOT}
      [] stage = "plot_yoy_growth" -> {YOY_GROWTH_PLOT}
      [] stage = "write_insights" -> {INSIGHTS_TXT}
      [] OTHER -> {}

C9_Order ==
    /\ \A i, j \in 1..Len(done) : i < j => (done[i] # done[j] /\ Phase(done[i]) <= Phase(done[j]))
    /\ \A i \in 1..Len(done) : \A k \in 1..(Phase(done[i]) - 1) :
          \E j \in 1..(i - 1) : Phase(done[j]) = k
    /\ artifacts \subseteq UNION {WrittenBy(done[i]) : i \in 1..Len(done)}
    /\ INSIGHTS_TXT \in artifacts => Renderers \subseteq Range(done)
    /\ (pc = "aborted") = (error # "none")
    /\ pc = "done" => Len(done) = 18

C9_Stops ==
    /\ pc # "aborted"
    /\ IsPrefix(done, done') /\ Len(done') <= Len(done) + 1
    /\ error' # "none" => (done' = done /\ artifacts' = artifacts)

\* C9: the stages of main() run once each, in the order load, clean, KPIs and
\* aggregates, the five renderers, the report; a stage that raises ends the
\* run: nothing runs after it, nothing more is written, nothing is retried;
\* and the text report is written only after all five renderers returned.
C9_ForwardOnly == [](C9_Order) /\ [][C9_Stops]_vars

C9_Witness ==
    /\ pc = "aborted" /\ error = "OSError"
    /\ Ran("plot_top") /\ ~Ran("plot_yoy_multi")
    /\ artifacts = {CLEANED_DATA, SUMMARY_METRICS, MONTHLY_PLOT, REGION_PLOT, TOP_CUSTOMERS_PLOT}
====
